---- MODULE Spec2Model ----
(***************************************************************************)
(* Curve-approximation cache of fj-core                                    *)
(* (crates/fj-core/src/algorithms/approx/curve/cache.rs).                  *)
(*                                                                         *)
(* Curve parameters (Point<1>) are modelled by the integers 0..MaxParam,   *)
(* positions in embedding space (Point<3>) by the tags in Globals.  The    *)
(* cache is the map `inner`; `get` and `insert` are the two methods of     *)
(* CurveApproxCache.  CurveApprox::{merge, make_subset, reverse} and       *)
(* CurveApproxSegment::{normalize, reverse} live in the parent module,     *)
(* which is not part of the available sources; they are modelled from      *)
(* sections 3, 4.2 and 4.3 of the specification.                           *)
(*                                                                         *)
(* The layers of fj-core (crates/fj-core/src/layers) follow further down:  *)
(* a command is decided into events, and the events evolve the state of    *)
(* the layer.  After them come the input handler of the viewer             *)
(* (src/input/handler.rs), Sweep::sweep with its SweepCache                *)
(* (crates/fj-core/src/algorithms/sweep/mod.rs) and the helpers of         *)
(* ValidationCheck (crates/fj-core/src/validation/validation_check.rs).    *)
(***************************************************************************)
EXTENDS Integers, Sequences, FiniteSets, TLC

\* Largest curve parameter; parameters are 0..MaxParam.
MaxParam == 4

\* Largest number of points of a segment given to normalize on its own.
MaxPoints == 2

Curves == {"c1", "c2"}
Params == 0..MaxParam
Globals == {"g", "h"}

VARIABLES
  inner,     \* CurveApproxCache::inner, a map from curve to its CurveApprox
  op,        \* the call that just returned: its arguments, the cache it
             \* found (before) and the value it returned
  inserted,  \* the curves insert has been called for
  pc,        \* the position of the layer call under way, "idle" between calls
  command,   \* the command a layer is processing
  events,    \* the events vector of the command being processed
  objects,   \* the state of Layer<Objects>: the objects in the stores
  validated, \* the commands the validation layer was given by the objects layer
  errors,    \* Validation::errors, a map from object id to validation error
  color,     \* Presentation::color, a map from region to its colour
  cursor,    \* Handler::cursor, the last cursor position, if any
  movement,  \* Handler::movement
  rotation,  \* Handler::rotation
  camera,    \* the Camera given to the handler
  actions,   \* the Actions given to the handler
  buttons,   \* the state of the most recent event of the Left and of the
             \* Right mouse button
  services,  \* Services: the number of objects inserted into the stores
  swept,     \* the values the sweep calls have returned, in order
  held,      \* a SweepCache that a caller holds and gives to sweep_with_cache
  check,     \* the errors that ValidationCheck::check yields for the object
  result     \* the outcome of the helper of ValidationCheck that was called

handlerVars == <<cursor, movement, rotation, camera, actions, buttons>>
sweepVars == <<services, swept, held>>
checkVars == <<check, result>>

vars == <<inner, op, inserted, pc, command, events, objects, validated, errors,
          color, handlerVars, sweepVars, checkVars>>

\* the variables that the calls of the cache leave alone
notCache == <<pc, command, events, objects, validated, errors,
              color, handlerVars, sweepVars, checkVars>>

\* the variables that the calls of the objects and validation layers leave
\* alone
notLayers == <<inner, op, inserted, color, handlerVars, sweepVars, checkVars>>

\* the variables that the calls of the presentation layer leave alone
notPresentation == <<inner, op, inserted, objects, validated, errors,
                     handlerVars, sweepVars, checkVars>>

\* the variables that the input handler leaves alone
notHandler == <<inner, op, inserted, pc, command, events, objects, validated,
                errors, color, sweepVars, checkVars>>

\* the variables that the sweep calls leave alone
notSweep == <<inner, op, inserted, pc, command, events, objects, validated,
              errors, color, handlerVars, checkVars>>

\* the variables that the helpers of ValidationCheck leave alone
notCheck == <<inner, op, inserted, pc, command, events, objects, validated,
              errors, color, handlerVars, sweepVars>>

----------------------------------------------------------------------------
\* Option<T>

None == [some |-> FALSE]
Some(v) == [some |-> TRUE, val |-> v]

----------------------------------------------------------------------------
\* Helpers

Min(a, b) == IF a < b THEN a ELSE b
Max(a, b) == IF a > b THEN a ELSE b

SeqReverse(s) == [i \in 1..Len(s) |-> s[Len(s) + 1 - i]]

RECURSIVE SeqFilter(_, _)
\* Vec::retain restricted to the elements whose index is in keep
SeqFilter(s, keep) ==
  IF s = <<>> THEN <<>>
  ELSE LET rest == SeqFilter(Tail(s), {i - 1 : i \in keep \ {1}})
       IN  IF 1 \in keep THEN <<Head(s)>> \o rest ELSE rest

----------------------------------------------------------------------------
\* CurveBoundary (spec section 3)

is_normalized(b) == b[1] < b[2]

BoundaryReverse(b) == <<b[2], b[1]>>

BoundaryNormalize(b) == IF is_normalized(b) THEN b ELSE BoundaryReverse(b)

----------------------------------------------------------------------------
\* ApproxPoint, CurveApproxSegment (spec sections 3 and 4.3)

ApproxPoint(l, g) == [local |-> l, global |-> g]

Segment(b, pts) == [boundary |-> b, points |-> pts]

SegmentReverse(s) == Segment(BoundaryReverse(s.boundary), SeqReverse(s.points))

normalize(s) == IF is_normalized(s.boundary) THEN s ELSE SegmentReverse(s)

\* CurveApproxSegment::overlaps: the boundaries overlap or touch at an endpoint
\* (spec 4.2, "overlaps or is adjacent (touches at an endpoint)")
overlaps(a, b) ==
  LET na == BoundaryNormalize(a.boundary)
      nb == BoundaryNormalize(b.boundary)
  IN  na[1] <= nb[2] /\ na[2] >= nb[1]

\* the positions of a sequence of keys in ascending order of key; equal keys
\* keep their order (Vec::sort is stable)
SortPerm(keys) ==
  [i \in 1..Len(keys) |->
     CHOOSE j \in 1..Len(keys) :
       Cardinality({k \in 1..Len(keys) :
                      \/ keys[k] < keys[j]
                      \/ keys[k] = keys[j] /\ k < j}) = i - 1]

\* points in ascending order of their local coordinate
SortPoints(points) ==
  LET perm == SortPerm([i \in 1..Len(points) |-> points[i].local])
  IN  [i \in 1..Len(points) |-> points[perm[i]]]

\* segments in ascending order of boundary.start
SortSegments(segments) ==
  LET perm == SortPerm([i \in 1..Len(segments) |-> segments[i].boundary[1]])
  IN  [i \in 1..Len(segments) |-> segments[perm[i]]]

\* CurveApproxSegment::merge (spec 4.2): the union boundary; the points of
\* `other` (the stored segment) are all kept, the points of `self` are kept
\* only outside the sub-range `other` covers
SegmentMerge(self, other) ==
  LET keep == {i \in 1..Len(self.points) :
                 \/ self.points[i].local < other.boundary[1]
                 \/ self.points[i].local > other.boundary[2]}
  IN  Segment(<<Min(self.boundary[1], other.boundary[1]),
                Max(self.boundary[2], other.boundary[2])>>,
              SortPoints(SeqFilter(self.points, keep) \o other.points))

RECURSIVE MergeAll(_, _)
MergeAll(seg, others) ==
  IF others = <<>> THEN seg
  ELSE MergeAll(SegmentMerge(seg, Head(others)), Tail(others))

\* CurveApprox::merge (spec 4.2)
merge(segments, new_segment) ==
  LET touching == {i \in 1..Len(segments) : overlaps(segments[i], new_segment)}
      merged == MergeAll(new_segment, SeqFilter(segments, touching))
      rest == SeqFilter(segments, (1..Len(segments)) \ touching)
  IN  [segments |-> SortSegments(rest \o <<merged>>),
       segment |-> merged]

\* CurveApproxSegment::make_subset (spec 4.2): the boundary clipped to the
\* intersection, the points strictly inside the requested boundary
SegmentSubset(s, b) ==
  Segment(<<Max(s.boundary[1], b[1]), Min(s.boundary[2], b[2])>>,
          SeqFilter(s.points,
                    {i \in 1..Len(s.points) :
                       s.points[i].local > b[1] /\ s.points[i].local < b[2]}))

\* a stored boundary intersects the requested one: the two have a stretch of
\* the curve in common, more than a single parameter (spec 4.1: zero segments
\* "if nothing overlaps"; a boundary of zero length covers no stretch)
Intersects(sb, b) == Max(sb[1], b[1]) < Min(sb[2], b[2])

\* CurveApprox::make_subset (spec 4.1 step 1 and 4.2)
make_subset(segments, boundary) ==
  LET b == BoundaryNormalize(boundary)
      hit == {i \in 1..Len(segments) : Intersects(segments[i].boundary, b)}
      kept == SeqFilter(segments, hit)
  IN  [i \in 1..Len(kept) |-> SegmentSubset(kept[i], b)]

\* CurveApprox::reverse (spec 4.2)
ApproxReverse(segments) ==
  [i \in 1..Len(segments) |-> SegmentReverse(segments[Len(segments) + 1 - i])]

----------------------------------------------------------------------------
\* CurveApproxCache

\* get without the subset: the whole stored approximation is returned
get_no_subset(cache, curve, boundary) ==
  IF curve \notin DOMAIN cache THEN None
  ELSE IF ~is_normalized(boundary)
       THEN Some(ApproxReverse(cache[curve]))
       ELSE Some(cache[curve])

\* get without the reversal for a boundary that is not normalized
get_no_reverse(cache, curve, boundary) ==
  IF curve \notin DOMAIN cache THEN None
  ELSE Some(make_subset(cache[curve], boundary))

\* get with a default approximation in place of the early return
get_default(cache, curve, boundary) ==
  LET approx == make_subset(IF curve \in DOMAIN cache THEN cache[curve] ELSE <<>>,
                            boundary)
  IN  IF ~is_normalized(boundary)
      THEN Some(ApproxReverse(approx))
      ELSE Some(approx)

\* get that reports a miss as None
get_none_on_miss(cache, curve, boundary) ==
  IF curve \notin DOMAIN cache THEN None
  ELSE LET approx == make_subset(cache[curve], boundary)
       IN  IF approx = <<>> THEN None
           ELSE IF ~is_normalized(boundary)
                THEN Some(ApproxReverse(approx))
                ELSE Some(approx)

\* CurveApproxCache::get
get(cache, curve, boundary) ==
  IF curve \notin DOMAIN cache THEN None
  ELSE LET approx == make_subset(cache[curve], boundary)
       IN  IF ~is_normalized(boundary)
           THEN Some(ApproxReverse(approx))
           ELSE Some(approx)

\* BTreeMap::remove, the map without the key
MapRemove(cache, curve) == [c \in DOMAIN cache \ {curve} |-> cache[c]]

\* BTreeMap::insert
MapInsert(cache, curve, approx) ==
  [c \in DOMAIN cache \cup {curve} |-> IF c = curve THEN approx ELSE cache[c]]

\* insert that replaces the entry of the curve by the new segment
insert_overwrites(cache, curve, new_segment) ==
  LET normalized == normalize(new_segment)
  IN  [inner |-> MapInsert(MapRemove(cache, curve), curve, <<normalized>>),
       segment |-> normalized]

\* insert that adds the new segment to the entry without merging
insert_appends(cache, curve, new_segment) ==
  LET normalized == normalize(new_segment)
      existing == IF curve \in DOMAIN cache THEN cache[curve] ELSE <<>>
  IN  [inner |-> MapInsert(MapRemove(cache, curve), curve,
                           SortSegments(existing \o <<normalized>>)),
       segment |-> normalized]

\* insert without the normalization of the new segment
insert_no_normalize(cache, curve, new_segment) ==
  LET removed == MapRemove(cache, curve)
      res == IF curve \in DOMAIN cache
             THEN merge(cache[curve], new_segment)
             ELSE [segments |-> <<new_segment>>, segment |-> new_segment]
  IN  [inner |-> MapInsert(removed, curve, res.segments),
       segment |-> res.segment]

\* insert that pushes the new segment at the end of the entry
insert_pushes(cache, curve, new_segment) ==
  LET normalized == normalize(new_segment)
      existing == IF curve \in DOMAIN cache THEN cache[curve] ELSE <<>>
  IN  [inner |-> MapInsert(MapRemove(cache, curve), curve,
                           existing \o <<normalized>>),
       segment |-> normalized]

\* insert that does not put a merged entry back into the map
insert_forgets(cache, curve, new_segment) ==
  LET normalized == normalize(new_segment)
      removed == MapRemove(cache, curve)
  IN  IF curve \in DOMAIN cache
      THEN [inner |-> removed, segment |-> merge(cache[curve], normalized).segment]
      ELSE [inner |-> MapInsert(removed, curve, <<normalized>>),
            segment |-> normalized]

\* insert that merges the new segment into the entry of every curve
insert_everywhere(cache, curve, new_segment) ==
  LET normalized == normalize(new_segment)
      res == IF curve \in DOMAIN cache
             THEN merge(cache[curve], normalized)
             ELSE [segments |-> <<normalized>>, segment |-> normalized]
  IN  [inner |-> [c \in DOMAIN cache \cup {curve} |->
                    IF c = curve THEN res.segments
                    ELSE merge(cache[c], normalized).segments],
       segment |-> res.segment]

\* CurveApproxCache::insert: the cache after the call and the segment returned
insert(cache, curve, new_segment) ==
  LET normalized == normalize(new_segment)
      removed == MapRemove(cache, curve)
      res == IF curve \in DOMAIN cache
             THEN merge(cache[curve], normalized)
             ELSE [segments |-> <<normalized>>, segment |-> normalized]
  IN  [inner |-> MapInsert(removed, curve, res.segments),
       segment |-> res.segment]

----------------------------------------------------------------------------
\* Inputs

\* the parameters a curve is approximated over (the second curve is a short one)
ParamsOf(curve) == IF curve = "c1" THEN Params ELSE {0, 1}

Boundaries(curve) == ParamsOf(curve) \X ParamsOf(curve)

\* the parameters strictly between the two ends of a boundary
Interior(b) == {p \in Params : Min(b[1], b[2]) < p /\ p < Max(b[1], b[2])}

\* the parameters of ps as a sequence, ascending
RECURSIVE Ascending(_)
Ascending(ps) ==
  IF ps = {} THEN <<>>
  ELSE LET m == CHOOSE x \in ps : \A y \in ps : x <= y
       IN  <<m>> \o Ascending(ps \ {m})

\* a segment as a caller produces it (spec 3): points strictly inside the
\* boundary, ordered in the direction of the boundary, all at positions
\* computed by the same tessellation g
InputSegment(b, ps, g) ==
  LET asc == [i \in 1..Cardinality(ps) |-> ApproxPoint(Ascending(ps)[i], g)]
  IN  Segment(b, IF b[1] <= b[2] THEN asc ELSE SeqReverse(asc))

\* the segments a caller inserts: a tessellation samples no parameter inside
\* the boundary (a line) or every one (an arc)
InputSegments(curve) ==
  UNION {{InputSegment(b, ps, g) : ps \in {{}, Interior(b)}, g \in Globals} :
           b \in Boundaries(curve)}

----------------------------------------------------------------------------
\* The state machine

NoSegment == Segment(<<0, 0>>, <<>>)

Idle == [kind |-> "idle", curve |-> "c1", segment |-> NoSegment,
         before |-> <<>>, returned |-> NoSegment, approx |-> None]

\* no layer has been given a command
NoCommand == [object |-> "none"]

LayersIdle ==
  /\ pc = "idle"
  /\ command = NoCommand
  /\ events = <<>>
  /\ objects = <<>>
  /\ validated = <<>>
  /\ errors = <<>>

\* Presentation::default(): no region has a colour
PresentationNew == color = <<>>

\* Handler::new, Actions::new, and a camera that has not been moved
HandlerNew ==
  /\ cursor = None
  /\ movement = [started |-> FALSE]
  /\ rotation = [started |-> FALSE]
  /\ camera = [rotation |-> <<0, 0>>, translation |-> <<0, 0>>]
  /\ actions = [exit |-> FALSE, toggle_model |-> FALSE, toggle_mesh |-> FALSE]
  /\ buttons = [Left |-> "none", Right |-> "none"]

\* SweepCache::default(): no global vertex and no global edge is cached
EmptySweepCache == [global_vertex |-> <<>>, global_edge |-> <<>>]

\* the vertices the services have stored before any sweep, by their ObjectId
Vertices == 1..2

\* no sweep has been called; the ids handed out so far are those of Vertices
SweepNew ==
  /\ services = Cardinality(Vertices)
  /\ swept = <<>>
  /\ held = EmptySweepCache

\* no helper of ValidationCheck has been called
CheckNew ==
  /\ check = <<>>
  /\ result = None

Init ==
  /\ inner = <<>>
  /\ inserted = {}
  /\ op = Idle
  /\ LayersIdle
  /\ PresentationNew
  /\ HandlerNew
  /\ SweepNew
  /\ CheckNew

\* a caller calls insert and holds the segment it returns
Insert(curve, new_segment) ==
  LET r == insert(inner, curve, new_segment)
  IN  /\ op.kind = "idle"
      /\ inner' = r.inner
      /\ inserted' = inserted \cup {curve}
      /\ op' = [kind |-> "insert", curve |-> curve, segment |-> new_segment,
                before |-> inner, returned |-> r.segment, approx |-> None]
      /\ UNCHANGED notCache

\* a get that starts while an insert is under way
Get_during_insert(curve, boundary) ==
  /\ op.kind \in {"idle", "removed", "merged"}
  /\ op' = [kind |-> "get", curve |-> curve,
            segment |-> Segment(boundary, <<>>), before |-> inner,
            returned |-> NoSegment, approx |-> get(inner, curve, boundary)]
  /\ UNCHANGED <<inner, inserted>>
  /\ UNCHANGED notCache

\* a get that makes the subset in the stored approximation, not in a clone
Get_in_place(curve, boundary) ==
  /\ op.kind = "idle"
  /\ op' = [kind |-> "get", curve |-> curve,
            segment |-> Segment(boundary, <<>>), before |-> inner,
            returned |-> NoSegment, approx |-> get(inner, curve, boundary)]
  /\ inner' = IF curve \in DOMAIN inner
              THEN MapInsert(inner, curve, make_subset(inner[curve], boundary))
              ELSE inner
  /\ UNCHANGED inserted
  /\ UNCHANGED notCache

\* a caller calls get and holds the approximation it returns
Get(curve, boundary) ==
  /\ op.kind = "idle"
  /\ op' = [kind |-> "get", curve |-> curve,
            segment |-> Segment(boundary, <<>>), before |-> inner,
            returned |-> NoSegment, approx |-> get(inner, curve, boundary)]
  /\ UNCHANGED <<inner, inserted>>
  /\ UNCHANGED notCache

\* the caller lets go of the value it was returned
Drop ==
  /\ op.kind \in {"insert", "get"}
  /\ op' = Idle
  /\ UNCHANGED <<inner, inserted>>
  /\ UNCHANGED notCache

Next ==
  \/ \E c \in Curves : \E s \in InputSegments(c) : Insert(c, s)
  \/ \E c \in Curves : \E b \in Boundaries(c) : Get(c, b)
  \/ Drop

Spec == Init /\ [][Next]_vars

----------------------------------------------------------------------------
\* normalize on its own: new_segment.normalize() works in place, on any value
\* of CurveApproxSegment, whose fields are public

\* the sequences of at most n elements of S
RECURSIVE SeqsUpTo(_, _)
SeqsUpTo(S, n) ==
  IF n = 0 THEN {<<>>}
  ELSE LET shorter == SeqsUpTo(S, n - 1)
       IN  shorter \cup {Append(q, x) : q \in shorter, x \in S}

\* every segment value: any two boundary values, any points in any order
AnySegments ==
  {Segment(b, pts) :
     b \in Params \X Params,
     pts \in SeqsUpTo({ApproxPoint(l, g) : l \in Params, g \in Globals}, MaxPoints)}

InitNormalize ==
  /\ inner = <<>>
  /\ inserted = {}
  /\ op \in {[kind |-> "segment", curve |-> "c1", segment |-> s,
               before |-> <<>>, returned |-> s, approx |-> None] :
               s \in AnySegments}
  /\ LayersIdle
  /\ PresentationNew
  /\ HandlerNew
  /\ SweepNew
  /\ CheckNew

\* a segment is normalized in place: segment is the value before the call,
\* returned the value after it
Normalize ==
  /\ op.kind = "segment"
  /\ op' = [op EXCEPT !.kind = "normalized", !.returned = normalize(op.segment)]
  /\ UNCHANGED <<inner, inserted>>
  /\ UNCHANGED notCache

\* the normalized segment is normalized once more
NormalizeAgain ==
  /\ op.kind = "normalized"
  /\ op' = [op EXCEPT !.kind = "normalized again",
                      !.segment = op.returned,
                      !.returned = normalize(op.returned)]
  /\ UNCHANGED <<inner, inserted>>
  /\ UNCHANGED notCache

NextNormalize == Normalize \/ NormalizeAgain

SpecNormalize == InitNormalize /\ [][NextNormalize]_vars

----------------------------------------------------------------------------
\* insert step by step: the entry is taken out of the map, merged as a local
\* value and put back. insert borrows the cache mutably (&mut self) and get
\* borrows it shared (&self), so a get starts only when no insert is under way

\* new_segment.normalize() and self.inner.remove(&curve)
InsertRemove(curve, new_segment) ==
  /\ op.kind = "idle"
  /\ inner' = MapRemove(inner, curve)
  /\ inserted' = inserted \cup {curve}
  /\ op' = [kind |-> "removed", curve |-> curve, segment |-> new_segment,
            before |-> inner, returned |-> normalize(new_segment),
            approx |-> None,
            existing |-> IF curve \in DOMAIN inner THEN Some(inner[curve])
                         ELSE None]
  /\ UNCHANGED notCache

\* the match on the removed entry: existing_approx.merge(new_segment), or a
\* new approximation of the one segment
InsertMerge ==
  /\ op.kind = "removed"
  /\ LET res == IF op.existing.some
                THEN merge(op.existing.val, op.returned)
                ELSE [segments |-> <<op.returned>>, segment |-> op.returned]
     IN  op' = [op EXCEPT !.kind = "merged",
                          !.existing = Some(res.segments),
                          !.returned = res.segment]
  /\ UNCHANGED <<inner, inserted>>
  /\ UNCHANGED notCache

\* self.inner.insert(curve, approx), and the segment is returned
InsertPutBack ==
  /\ op.kind = "merged"
  /\ inner' = MapInsert(inner, op.curve, op.existing.val)
  /\ op' = [kind |-> "insert", curve |-> op.curve, segment |-> op.segment,
            before |-> op.before, returned |-> op.returned, approx |-> None]
  /\ UNCHANGED inserted
  /\ UNCHANGED notCache

NextSteps ==
  \/ \E c \in Curves : \E s \in InputSegments(c) : InsertRemove(c, s)
  \/ InsertMerge
  \/ InsertPutBack
  \/ \E c \in Curves : \E b \in Boundaries(c) : Get(c, b)
  \/ Drop

SpecSteps == Init /\ [][NextSteps]_vars

----------------------------------------------------------------------------
\* two segments inserted for one curve in either order, as the tests
\* merge_insertions and merge_insertions_that_are_not_normalized insert
\* segments one after the other into a cache

\* the interiors of the boundaries of a and b are disjoint, a lying before
\* b on the curve: the boundaries are disjoint or share only an end of each
DisjointInteriors(a, b) ==
  BoundaryNormalize(a.boundary)[2] <= BoundaryNormalize(b.boundary)[1]

\* the cache after insert(curve, a) and then insert(curve, b)
InsertBoth(cache, curve, a, b) ==
  insert(insert(cache, curve, a).inner, curve, b).inner

\* a segment is inserted into the cache being prepared
InsertBase(new_segment) ==
  /\ op.kind = "idle"
  /\ inner' = insert(inner, "c1", new_segment).inner
  /\ inserted' = inserted \cup {"c1"}
  /\ UNCHANGED op
  /\ UNCHANGED notCache

\* a and b, which lies after a, are inserted, a first; swapped is the cache
\* that the same two calls give with b first
InsertPair(a, b) ==
  /\ op.kind = "idle"
  /\ DisjointInteriors(a, b)
  /\ inner' = InsertBoth(inner, "c1", a, b)
  /\ inserted' = inserted \cup {"c1"}
  /\ op' = [kind |-> "pair", curve |-> "c1", segment |-> a, other |-> b,
            before |-> inner, returned |-> NoSegment, approx |-> None,
            swapped |-> InsertBoth(inner, "c1", b, a)]
  /\ UNCHANGED notCache

NextOrder ==
  \/ \E s \in InputSegments("c1") : InsertBase(s)
  \/ \E a, b \in InputSegments("c1") : InsertPair(a, b)

SpecOrder == Init /\ [][NextOrder]_vars

----------------------------------------------------------------------------
\* Layer<Objects> (layers/objects.rs). The state of the layer is modelled by
\* the sequence of the objects inserted into the stores.

\* Largest number of objects inserted.
MaxInserts == 3

\* the objects a caller inserts
AnyObject == {"curve", "region", "solid"}

\* struct InsertObject, both command and event of Layer<Objects>
InsertObject(object) == [object |-> object]

\* a decide that pushes the command twice
decide_twice(self, state, evs) == evs \o <<self, self>>

\* Command<Objects> for InsertObject, decide: events.push(self)
decide(self, state, evs) == Append(evs, self)

\* Event<Objects> for InsertObject, evolve: self.object.clone().insert(state)
evolve(self, state) == Append(state, self.object)

RECURSIVE EvolveAll(_, _)
\* the second half of Layer::process: every event evolves the state, in the
\* order of the events vector
EvolveAll(evs, state) ==
  IF evs = <<>> THEN state
  ELSE EvolveAll(Tail(evs), evolve(Head(evs), state))

\* Layer<Objects>::insert is called: let mut events = Vec::new()
ObjectsInsert(object) ==
  /\ pc = "idle"
  /\ Len(objects) < MaxInserts
  /\ pc' = "decide"
  /\ command' = InsertObject(object)
  /\ events' = <<>>
  /\ UNCHANGED <<objects, validated, errors>>
  /\ UNCHANGED notLayers

\* self.process(InsertObject { object }, &mut events), first half: decide
ObjectsDecide ==
  /\ pc = "decide"
  /\ events' = decide(command, objects, events)
  /\ pc' = "evolve"
  /\ UNCHANGED <<command, objects, validated, errors>>
  /\ UNCHANGED notLayers

\* self.process(..), second half: the events evolve the state
ObjectsEvolve ==
  /\ pc = "evolve"
  /\ objects' = EvolveAll(events, objects)
  /\ pc' = "validate"
  /\ UNCHANGED <<command, events, validated, errors>>
  /\ UNCHANGED notLayers

\* for event in events { validation.process(event, &mut Vec::new()) }, and
\* insert returns
ObjectsValidate ==
  /\ pc = "validate"
  /\ validated' = validated \o events
  /\ pc' = "idle"
  /\ command' = NoCommand
  /\ events' = <<>>
  /\ UNCHANGED <<objects, errors>>
  /\ UNCHANGED notLayers

NextObjects ==
  \/ \E object \in AnyObject : ObjectsInsert(object)
  \/ ObjectsDecide
  \/ ObjectsEvolve
  \/ ObjectsValidate

SpecObjects == Init /\ [][NextObjects]_vars

----------------------------------------------------------------------------
\* Validation (layers/validation.rs): the state of the validation layer is
\* the map `errors`

\* Largest number of errors that the validation of one object finds.
MaxErrors == 2

\* the validation errors
ValidationError == {"e1", "e2"}

\* AnyObject::id, the id of a stored object
id(object) == IF object = "curve" THEN 1 ELSE IF object = "region" THEN 2 ELSE 3

\* ValidationCommand::ValidateObject, with the errors that
\* object.validate_with_config(&self.config, &mut errors) finds for the object
ValidateObject(object, errs) == [object |-> object, errs |-> errs]

\* ValidationEvent::ValidationFailed
ValidationFailed(object, err) == [object |-> object, err |-> err]

\* a decide that reports the first error only
validation_decide_first(self, cmd, evs) ==
  IF cmd.errs = <<>> THEN evs
  ELSE Append(evs, ValidationFailed(cmd.object, Head(cmd.errs)))

\* State for Validation, decide: an event is pushed for each error found
validation_decide(self, cmd, evs) ==
  evs \o [i \in 1..Len(cmd.errs) |-> ValidationFailed(cmd.object, cmd.errs[i])]

\* an evolve that keeps the error already recorded for the object
validation_evolve_keeps(self, event) ==
  [i \in DOMAIN self \cup {id(event.object)} |->
     IF i \in DOMAIN self THEN self[i] ELSE event.err]

\* State for Validation, evolve: self.errors.insert(object.id(), err.clone())
validation_evolve(self, event) ==
  [i \in DOMAIN self \cup {id(event.object)} |->
     IF i = id(event.object) THEN event.err ELSE self[i]]

RECURSIVE ValidationEvolveAll(_, _)
\* the events evolve the state, in the order of the events vector
ValidationEvolveAll(self, evs) ==
  IF evs = <<>> THEN self
  ELSE ValidationEvolveAll(validation_evolve(self, Head(evs)), Tail(evs))

\* the validation layer is given a ValidateObject command
ValidationProcess(object, errs) ==
  /\ pc = "idle"
  /\ pc' = "decide"
  /\ command' = ValidateObject(object, errs)
  /\ events' = <<>>
  /\ UNCHANGED <<objects, validated, errors>>
  /\ UNCHANGED notLayers

\* decide(&self, command, events)
ValidationDecide ==
  /\ pc = "decide"
  /\ events' = validation_decide(errors, command, events)
  /\ pc' = "evolve"
  /\ UNCHANGED <<command, objects, validated, errors>>
  /\ UNCHANGED notLayers

\* evolve(&mut self, event) for the events of the command
ValidationEvolve ==
  /\ pc = "evolve"
  /\ errors' = ValidationEvolveAll(errors, events)
  /\ pc' = "idle"
  /\ command' = NoCommand
  /\ events' = <<>>
  /\ UNCHANGED <<objects, validated>>
  /\ UNCHANGED notLayers

NextValidation ==
  \/ \E object \in AnyObject :
       \E errs \in SeqsUpTo(ValidationError, MaxErrors) :
         ValidationProcess(object, errs)
  \/ ValidationDecide
  \/ ValidationEvolve

SpecValidation == Init /\ [][NextValidation]_vars

----------------------------------------------------------------------------
\* Layer<Presentation> (layers/presentation.rs): the state of the layer is
\* the map `color`

\* Handle<Region>
Regions == {"r1", "r2"}

\* fj_interop::Color
Colors == {"red", "blue"}

\* AnyObject<Stored> as the presentation layer sees it: a region with its
\* handle, or an object of another kind
StoredObjects ==
  {[variant |-> "Region", handle |-> r] : r \in Regions}
    \cup {[variant |-> "Curve", handle |-> "c1"]}

\* struct SetColor, both command and event
SetColor(region, c) == [type |-> "SetColor", region |-> region, color |-> c]

\* struct DeriveObject
DeriveObject(original, derived) ==
  [type |-> "DeriveObject", original |-> original, derived |-> derived]

\* Command<Presentation> for SetColor, decide: events.push(self)
set_color_decide(self, state, evs) == Append(evs, self)

\* an evolve that keeps the colour a region has
set_color_evolve_keeps(self, state) ==
  [r \in DOMAIN state \cup {self.region} |->
     IF r \in DOMAIN state THEN state[r] ELSE self.color]

\* Event<Presentation> for SetColor, evolve:
\* state.color.insert(self.region.clone(), self.color)
set_color_evolve(self, state) ==
  [r \in DOMAIN state \cup {self.region} |->
     IF r = self.region THEN self.color ELSE state[r]]

\* a decide that does not look at the kind of the derived object
derive_object_decide_any(self, state, evs) ==
  IF self.original.variant = "Region" /\ self.original.handle \in DOMAIN state
  THEN Append(evs, SetColor(self.derived.handle, state[self.original.handle]))
  ELSE evs

\* Command<Presentation> for DeriveObject, decide
derive_object_decide(self, state, evs) ==
  IF self.original.variant = "Region" /\ self.derived.variant = "Region"
  THEN IF self.original.handle \in DOMAIN state
       THEN Append(evs, SetColor(self.derived.handle,
                                 state[self.original.handle]))
       ELSE evs
  ELSE evs

RECURSIVE PresentationEvolveAll(_, _)
\* the events evolve the state, in the order of the events vector
PresentationEvolveAll(evs, state) ==
  IF evs = <<>> THEN state
  ELSE PresentationEvolveAll(Tail(evs), set_color_evolve(Head(evs), state))

\* Layer<Presentation>::set_color is called
PresentationSetColor(region, c) ==
  /\ pc = "idle"
  /\ pc' = "decide"
  /\ command' = SetColor(region, c)
  /\ events' = <<>>
  /\ UNCHANGED color
  /\ UNCHANGED notPresentation

\* Layer<Presentation>::derive_object is called
PresentationDeriveObject(original, derived) ==
  /\ pc = "idle"
  /\ pc' = "decide"
  /\ command' = DeriveObject(original, derived)
  /\ events' = <<>>
  /\ UNCHANGED color
  /\ UNCHANGED notPresentation

\* self.process(command, &mut events), first half: decide
PresentationDecide ==
  /\ pc = "decide"
  /\ events' = IF command.type = "SetColor"
               THEN set_color_decide(command, color, events)
               ELSE derive_object_decide(command, color, events)
  /\ pc' = "evolve"
  /\ UNCHANGED <<command, color>>
  /\ UNCHANGED notPresentation

\* self.process(..), second half: the events evolve the state; the call
\* returns
PresentationEvolve ==
  /\ pc = "evolve"
  /\ color' = PresentationEvolveAll(events, color)
  /\ pc' = "idle"
  /\ command' = NoCommand
  /\ events' = <<>>
  /\ UNCHANGED notPresentation

NextPresentation ==
  \/ \E r \in Regions : \E c \in Colors : PresentationSetColor(r, c)
  \/ \E original, derived \in StoredObjects :
       PresentationDeriveObject(original, derived)
  \/ PresentationDecide
  \/ PresentationEvolve

SpecPresentation == Init /\ [][NextPresentation]_vars

----------------------------------------------------------------------------
\* The input handler (src/input/handler.rs)
\*
\* Lengths and angles are counted in thousandths, so that the factors 0.005
\* and 0.2 of handle_cursor_moved are whole numbers. handle_mouse_wheel and
\* update touch only the zoom and camera.distance, which no other method
\* reads; they are left out.

\* the camera is turned and shifted by at most MaxTurn cursor steps
MaxTurn == 1

\* let f = 0.005, in thousandths
AngleFactor == 5

\* let f = 0.2, in thousandths
TranslationFactor == 200

\* PhysicalPosition<f64>: the positions of the cursor
Positions == {<<x, y>> : x \in 0..1, y \in 0..1}

MouseButton == {"Left", "Right", "Middle"}
ElementState == {"Pressed", "Released"}
VirtualKeyCode == {"Escape", "Key1", "Key2", "A"}

\* KeyboardInput { state, virtual_keycode, .. }
KeyboardInput ==
  [state : ElementState,
   virtual_keycode : {None} \cup {Some(k) : k \in VirtualKeyCode}]

\* the handler, as the methods see it through self
Handler == [cursor |-> cursor, movement |-> movement, rotation |-> rotation]

\* Movement::start, Movement::stop
movement_start(self) == [self EXCEPT !.started = TRUE]
movement_stop(self) == [self EXCEPT !.started = FALSE]

\* Rotation::start, Rotation::stop
rotation_start(self, focus_point) == [self EXCEPT !.started = TRUE]
rotation_stop(self) == [self EXCEPT !.started = FALSE]

\* Rotation::apply: a started rotation turns the camera by the angles
rotation_apply(self, angle_x, angle_y, cam) ==
  IF self.started
  THEN [cam EXCEPT !.rotation = <<@[1] + angle_x, @[2] + angle_y>>]
  ELSE cam

\* a handler that sets a flag whatever the state of the key
handle_keyboard_input_any_state(input, acts) ==
  IF input.virtual_keycode.some
  THEN LET virtual_key_code == input.virtual_keycode.val IN
       CASE virtual_key_code = "Escape" -> [acts EXCEPT !.exit = TRUE]
         [] virtual_key_code = "Key1" -> [acts EXCEPT !.toggle_model = TRUE]
         [] virtual_key_code = "Key2" -> [acts EXCEPT !.toggle_mesh = TRUE]
         [] OTHER -> acts
  ELSE acts

\* Handler::handle_keyboard_input; the value is the actions after the call
handle_keyboard_input(input, acts) ==
  IF input.state = "Pressed" /\ input.virtual_keycode.some
  THEN LET virtual_key_code == input.virtual_keycode.val IN
       CASE virtual_key_code = "Escape" -> [acts EXCEPT !.exit = TRUE]
         [] virtual_key_code = "Key1" -> [acts EXCEPT !.toggle_model = TRUE]
         [] virtual_key_code = "Key2" -> [acts EXCEPT !.toggle_mesh = TRUE]
         [] OTHER -> acts
  ELSE acts

\* a handler that moves the camera whether or not a movement is started
handle_cursor_moved_always(self, cur, cam) ==
  LET turned ==
        IF self.cursor.some
        THEN LET previous == self.cursor.val
                 diff_x == cur[1] - previous[1]
                 diff_y == cur[2] - previous[2]
                 rotated == rotation_apply(self.rotation,
                              diff_y * AngleFactor, diff_x * AngleFactor, cam)
             IN  [rotated EXCEPT !.translation =
                    <<@[1] + diff_x * TranslationFactor,
                      @[2] - diff_y * TranslationFactor>>]
        ELSE cam
  IN  [self |-> [self EXCEPT !.cursor = Some(cur)], camera |-> turned]

\* Handler::handle_cursor_moved; the value is the handler and the camera
\* after the call
handle_cursor_moved(self, cur, cam) ==
  LET turned ==
        IF self.cursor.some
        THEN LET previous == self.cursor.val
                 diff_x == cur[1] - previous[1]
                 diff_y == cur[2] - previous[2]
                 angle_x == diff_y * AngleFactor
                 angle_y == diff_x * AngleFactor
                 rotated == rotation_apply(self.rotation, angle_x, angle_y, cam)
             IN  IF self.movement.started
                 THEN LET x_trans == diff_x * TranslationFactor
                          y_trans == (0 - diff_y) * TranslationFactor
                      IN  [rotated EXCEPT !.translation =
                             <<x_trans + @[1], y_trans + @[2]>>]
                 ELSE rotated
        ELSE cam
  IN  [self |-> [self EXCEPT !.cursor = Some(cur)], camera |-> turned]

\* a handler whose release of the right button stops the rotation
handle_mouse_input_crossed(self, button, state, focus_point) ==
  CASE button = "Left" /\ state = "Pressed" ->
         [self EXCEPT !.rotation = rotation_start(@, focus_point)]
    [] button = "Left" /\ state = "Released" ->
         [self EXCEPT !.rotation = rotation_stop(@)]
    [] button = "Right" /\ state = "Pressed" ->
         [self EXCEPT !.movement = movement_start(@)]
    [] button = "Right" /\ state = "Released" ->
         [self EXCEPT !.rotation = rotation_stop(@)]
    [] OTHER -> self

\* Handler::handle_mouse_input; the value is the handler after the call
handle_mouse_input(self, button, state, focus_point) ==
  CASE button = "Left" /\ state = "Pressed" ->
         [self EXCEPT !.rotation = rotation_start(@, focus_point)]
    [] button = "Left" /\ state = "Released" ->
         [self EXCEPT !.rotation = rotation_stop(@)]
    [] button = "Right" /\ state = "Pressed" ->
         [self EXCEPT !.movement = movement_start(@)]
    [] button = "Right" /\ state = "Released" ->
         [self EXCEPT !.movement = movement_stop(@)]
    [] OTHER -> self

\* the camera is within the range the model follows it in
InRange(cam) ==
  LET Abs(n) == IF n < 0 THEN 0 - n ELSE n IN
  /\ Abs(cam.rotation[1]) + Abs(cam.rotation[2]) <= MaxTurn * AngleFactor
  /\ Abs(cam.translation[1]) + Abs(cam.translation[2])
       <= MaxTurn * TranslationFactor

\* the window reports a key
HandleKeyboardInput(input) ==
  /\ actions' = handle_keyboard_input(input, actions)
  /\ UNCHANGED <<cursor, movement, rotation, camera, buttons>>
  /\ UNCHANGED notHandler

\* the window reports the cursor at a position
HandleCursorMoved(cur) ==
  LET after == handle_cursor_moved(Handler, cur, camera) IN
  /\ InRange(after.camera)
  /\ cursor' = after.self.cursor
  /\ movement' = after.self.movement
  /\ rotation' = after.self.rotation
  /\ camera' = after.camera
  /\ UNCHANGED <<actions, buttons>>
  /\ UNCHANGED notHandler

\* the window reports a mouse button; buttons keeps the state that was
\* reported last for the left and for the right button
HandleMouseInput(button, state, focus_point) ==
  LET after == handle_mouse_input(Handler, button, state, focus_point) IN
  /\ cursor' = after.cursor
  /\ movement' = after.movement
  /\ rotation' = after.rotation
  /\ buttons' = IF button \in DOMAIN buttons
                THEN [buttons EXCEPT ![button] = state]
                ELSE buttons
  /\ UNCHANGED <<camera, actions>>
  /\ UNCHANGED notHandler

FocusPoints == {None, Some("p")}

NextHandler ==
  \/ \E input \in KeyboardInput : HandleKeyboardInput(input)
  \/ \E cur \in Positions : HandleCursorMoved(cur)
  \/ \E button \in MouseButton : \E state \in ElementState :
       \E focus_point \in FocusPoints :
         HandleMouseInput(button, state, focus_point)

SpecHandler == Init /\ [][NextHandler]_vars

\* Sweep (crates/fj-core/src/algorithms/sweep/mod.rs)
\*
\* services counts the objects the services have stored; the handle of a
\* newly inserted object is the next number. swept holds the values the
\* calls returned, held is the cache of a caller of sweep_with_cache.

\* at most MaxSweeps calls are followed
MaxSweeps == 4

\* path: impl Into<Vector<3>>
Paths == {"up", "right"}

\* BTreeMap::entry(key).or_insert_with(|| object.insert(services)): the
\* value, the map and the services after it
EntryOrInsert(map, key, srv) ==
  IF key \in DOMAIN map
  THEN [value |-> map[key], map |-> map, services |-> srv]
  ELSE [value |-> srv + 1,
        map |-> [k \in DOMAIN map \cup {key} |->
                   IF k = key THEN srv + 1 ELSE map[k]],
        services |-> srv + 1]

\* Sweep for Handle<Vertex>, sweep_with_cache: the swept vertex and the
\* vertex above it, which is the one cached for the id of the swept vertex or
\* a new one, and the global edge between them, cached alike
sweep_with_cache(self, path, cache, srv) ==
  LET b == EntryOrInsert(cache.global_vertex, self, srv)
      global_edge == EntryOrInsert(cache.global_edge, self, b.services)
  IN  [swept |-> [global_edge |-> global_edge.value,
                  vertices |-> <<self, b.value>>],
       cache |-> [global_vertex |-> b.map, global_edge |-> global_edge.map],
       services |-> global_edge.services]

\* a sweep that goes on with the cache of the caller
sweep_held(self, path, srv) ==
  LET done == sweep_with_cache(self, path, held, srv) IN
  [swept |-> done.swept, services |-> done.services]

\* Sweep::sweep: let mut cache = SweepCache::default();
\* self.sweep_with_cache(path, &mut cache, services)
sweep(self, path, srv) ==
  LET cache == EmptySweepCache
      done == sweep_with_cache(self, path, cache, srv)
  IN  [swept |-> done.swept, services |-> done.services]

\* a caller sweeps a vertex
SweepCall(object, path) ==
  LET done == sweep(object, path, services) IN
  /\ Len(swept) < MaxSweeps
  /\ swept' = Append(swept, [call |-> "sweep", object |-> object,
                             swept |-> done.swept])
  /\ services' = done.services
  /\ UNCHANGED held
  /\ UNCHANGED notSweep

\* a caller sweeps a vertex with the cache it holds
SweepWithCache(object, path) ==
  LET done == sweep_with_cache(object, path, held, services) IN
  /\ Len(swept) < MaxSweeps
  /\ swept' = Append(swept, [call |-> "sweep_with_cache", object |-> object,
                             swept |-> done.swept])
  /\ services' = done.services
  /\ held' = done.cache
  /\ UNCHANGED notSweep

NextSweep ==
  \/ \E object \in Vertices : \E path \in Paths : SweepCall(object, path)
  \/ \E object \in Vertices : \E path \in Paths : SweepWithCache(object, path)

SpecSweep == Init /\ [][NextSweep]_vars

\* ValidationCheck (crates/fj-core/src/validation/validation_check.rs)
\*
\* check is the sequence of errors Self::check yields for the object, in the
\* order the iterator yields them; result is the outcome of the last helper.

\* a check yields at most MaxYielded errors
MaxYielded == 5

Ok == [ok |-> TRUE]
Err(err) == [ok |-> FALSE, err |-> err]

\* a call that panics with the message, and a call that returns the value
Panicked(message) == [panic |-> TRUE, message |-> message]
Returned(value) == [panic |-> FALSE, value |-> value]

\* a helper that returns the last error of the check
check_and_return_last_error(errs) ==
  IF errs # <<>> THEN Err(errs[Len(errs)]) ELSE Ok

\* ValidationCheck::check_and_return_first_error
check_and_return_first_error(errs) ==
  IF errs # <<>> THEN Err(Head(errs)) ELSE Ok

\* a helper that does not look for a second error
check_and_expect_first_error(errs) ==
  IF errs = <<>>
  THEN Panicked("Expected one validation error; none found")
  ELSE Returned(Head(errs))

\* ValidationCheck::check_and_expect_one_error
check_and_expect_one_error(errs) ==
  IF errs = <<>>
  THEN Panicked("Expected one validation error; none found")
  ELSE LET err == Head(errs)
           remaining == Tail(errs)
       IN  IF remaining # <<>>
           THEN Panicked("Expected only one validation error")
           ELSE Returned(err)

\* a check of an object is chosen: it yields the errors
Check(errs) ==
  /\ check' = errs
  /\ result' = None
  /\ UNCHANGED notCheck

\* check_and_return_first_error is called
CheckAndReturnFirstError ==
  /\ result' = Some([helper |-> "check_and_return_first_error",
                     outcome |-> check_and_return_first_error(check)])
  /\ UNCHANGED check
  /\ UNCHANGED notCheck

\* check_and_expect_one_error is called
CheckAndExpectOneError ==
  /\ result' = Some([helper |-> "check_and_expect_one_error",
                     outcome |-> check_and_expect_one_error(check)])
  /\ UNCHANGED check
  /\ UNCHANGED notCheck

NextCheck ==
  \/ \E errs \in SeqsUpTo(ValidationError, MaxYielded) : Check(errs)
  \/ CheckAndReturnFirstError
  \/ CheckAndExpectOneError

SpecCheck == Init /\ [][NextCheck]_vars

\* Vocabulary of the properties

IsInsert == op.kind = "insert"
IsGet == op.kind = "get"

\* the curve of the last call had an entry when the call was made
Had == op.curve \in DOMAIN op.before

\* the entry the last call found for its curve
Before == IF Had THEN op.before[op.curve] ELSE <<>>

\* the entry of the curve of the last call, now
Entry == inner[op.curve]

\* the normalized boundary of the argument of the last call
Requested == BoundaryNormalize(op.segment.boundary)

Range(seq) == {seq[i] : i \in 1..Len(seq)}

\* closed interval a contains closed interval b
Covers(a, b) == a[1] <= b[1] /\ b[2] <= a[2]

\* the closed intervals a and b share at least one parameter
Touches(a, b) == a[1] <= b[2] /\ b[1] <= a[2]

\* the closed intervals a and b share exactly one parameter, an end of each,
\* and are not the same (degenerate) boundary
Adjacent(a, b) == (a[2] = b[1] \/ b[2] = a[1]) /\ a # b /\ ~(a[1] < b[2] /\ b[1] < a[2])

\* the stored segments the new segment of the last insert touches
Touched == {s \in Range(Before) : Touches(s.boundary, Requested)}

----------------------------------------------------------------------------
\* C1: first writer wins. When insert finds a stored segment whose boundary
\* covers (or equals) the normalized boundary of the new segment, it returns
\* that stored segment as it was, whatever points the new segment carries.
C1_FirstWriterWins ==
  IsInsert =>
    \A s \in Range(Before) :
      Covers(s.boundary, Requested) => op.returned = s

\* a covered insert whose points differ from the stored ones has returned
C1_Witness ==
  /\ IsInsert
  /\ \E s \in Range(Before) :
       /\ Covers(s.boundary, Requested)
       /\ s.points # <<>>
       /\ op.segment.points # <<>>
       /\ Range(op.segment.points) \cap Range(s.points) = {}
       /\ op.returned = s

C3_DisjointInsert ==
  (IsInsert /\ Had /\ Touched = {}) =>
    /\ op.returned = normalize(op.segment)
    /\ Range(Before) \subseteq Range(Entry)
    /\ normalize(op.segment) \in Range(Entry)
    /\ Len(Entry) = Len(Before) + 1
    /\ Range(Entry) = Range(Before) \cup {normalize(op.segment)}

\* a disjoint insert before a stored segment with points has returned, and
\* the entry holds the two segments
C3_Witness ==
  /\ IsInsert /\ Had /\ Touched = {}
  /\ is_normalized(Requested)
  /\ \E s \in Range(Before) : s.points # <<>> /\ Requested[2] < s.boundary[1]
  /\ Len(Entry) = 2
  /\ Entry[1] = op.returned

\* C4: an adjacent insert merges. After the inserts of two segments of a
\* curve whose boundaries share exactly one end (the new segment touches the
\* stored one at one end, on either side, and no other stored segment), get
\* over the union boundary returns exactly one segment: its boundary is the
\* union, its points are those of the two segments in ascending order.
C4_AdjacentMerge ==
  IsInsert =>
    \A s \in Range(Before) :
      (Adjacent(s.boundary, Requested) /\ Touched = {s}) =>
        LET new == normalize(op.segment)
            union == <<Min(s.boundary[1], Requested[1]),
                       Max(s.boundary[2], Requested[2])>>
            points == IF s.boundary[2] = Requested[1]
                      THEN s.points \o new.points
                      ELSE new.points \o s.points
        IN  get(inner, op.curve, union) = Some(<<Segment(union, points)>>)

\* a segment with points has been inserted next to a stored segment with
\* points, in reversed direction and to its left
C4_Witness ==
  /\ IsInsert
  /\ ~is_normalized(op.segment.boundary)
  /\ op.segment.points # <<>>
  /\ \E s \in Range(Before) :
       /\ Adjacent(s.boundary, Requested) /\ Touched = {s}
       /\ s.points # <<>>
       /\ Requested[2] = s.boundary[1]
       /\ Len(op.returned.points) = Len(s.points) + Len(op.segment.points)

\* C5: storage does not depend on direction. insert(c, (b, p)) and
\* insert(c, (reverse(b), reverse(p))) return the same segment and leave the
\* cache in the same state, from every cache state.
C5_DirectionIndependence ==
  IsInsert =>
    LET r == insert(op.before, op.curve, SegmentReverse(op.segment))
    IN  r.inner = inner /\ r.segment = op.returned

\* a reversed segment with several points has been merged with a stored one
C5_Witness ==
  /\ IsInsert /\ Had
  /\ ~is_normalized(op.segment.boundary)
  /\ Len(op.segment.points) >= 2
  /\ Touched # {}
  /\ op.returned # normalize(op.segment)

\* C6: round trip through reversal. For a curve with an entry and every
\* boundary b, get(c, reverse(b)) is reverse(get(c, b)): the segments in
\* reverse order, each with its ends swapped and its points reversed.
C6_ReversalRoundTrip ==
  (IsGet /\ Had) =>
    /\ op.approx.some
    /\ get(inner, op.curve, BoundaryReverse(op.segment.boundary))
         = Some(ApproxReverse(op.approx.val))

\* a get in reversed direction has returned two segments, one with points
C6_Witness ==
  /\ IsGet /\ Had
  /\ op.segment.boundary[1] > op.segment.boundary[2]
  /\ op.approx.some
  /\ Len(op.approx.val) = 2
  /\ \E i \in 1..2 : Len(op.approx.val[i].points) >= 1

\* the part that the boundaries sb and b have in common
Common(sb, b) ==
  <<IF sb[1] > b[1] THEN sb[1] ELSE b[1], IF sb[2] < b[2] THEN sb[2] ELSE b[2]>>

\* the segment a request b cuts out of a stored segment s: the common part
\* of the two boundaries, and the points of s strictly inside that part
Clipped(s, b) ==
  LET c == Common(s.boundary, b)
  IN  Segment(c, SelectSeq(s.points, LAMBDA q : c[1] < q.local /\ q.local < c[2]))

\* the stored boundary sb and the request b have a stretch of the curve in
\* common (a single parameter is no stretch)
Overlap(sb, b) == Common(sb, b)[1] < Common(sb, b)[2]

RECURSIVE ClippedAll(_, _)
\* the clipped segments of the stored segments that overlap b, in stored order
ClippedAll(segments, b) ==
  IF segments = <<>> THEN <<>>
  ELSE (IF Overlap(Head(segments).boundary, b)
        THEN <<Clipped(Head(segments), b)>> ELSE <<>>)
       \o ClippedAll(Tail(segments), b)

\* C7: partial-overlap clipping. For a normalized request b, get returns one
\* segment for every stored segment whose boundary intersects b (has a
\* stretch in common with it) and for no other; its boundary is the common
\* part of the stored boundary and b, its points are the stored points
\* strictly inside that part (a stored point on an end of it is left out);
\* the segments come in ascending order.
C7_Clipping ==
  (IsGet /\ Had /\ is_normalized(op.segment.boundary)) =>
    /\ op.approx = Some(ClippedAll(Before, op.segment.boundary))
    /\ \A i \in 1..Len(op.approx.val) : \A j \in 1..Len(op.approx.val) :
         i < j => op.approx.val[i].boundary[2] < op.approx.val[j].boundary[1]

\* a get has cut a stored segment at both ends, at stored points that the
\* result leaves out
C7_Witness ==
  /\ IsGet /\ Had /\ is_normalized(op.segment.boundary)
  /\ op.approx.some /\ Len(op.approx.val) = 1
  /\ \E s \in Range(Before) :
       /\ s.boundary[1] < op.segment.boundary[1]
       /\ op.segment.boundary[2] < s.boundary[2]
       /\ \E q \in Range(s.points) : q.local = op.segment.boundary[1]
       /\ \E q \in Range(s.points) : q.local = op.segment.boundary[2]
       /\ Len(op.approx.val[1].points) = 1
       /\ Len(s.points) = 3

\* C8: unknown curve. get returns None exactly when insert has never been
\* called for the curve, whatever the boundary; for such a curve it never
\* returns an (empty) approximation.
C8_UnknownCurve ==
  IsGet => (op.approx = None <=> op.curve \notin inserted)

\* a get for a curve never inserted has returned None from a cache that
\* holds an entry for another curve
C8_Witness ==
  /\ IsGet
  /\ op.curve \notin inserted
  /\ inserted # {}
  /\ op.approx = None

\* C9: miss beyond coverage. For a curve with an entry, a get whose boundary
\* shares no parameter with any stored segment returns Some approximation
\* with zero segments, never None.
C9_MissBeyondCoverage ==
  (IsGet /\ Had /\ \A s \in Range(Before) : ~Touches(s.boundary, Requested)) =>
    op.approx = Some(<<>>)

\* a get beside the only stored segment, which has points, has returned
C9_Witness ==
  /\ IsGet /\ Had
  /\ Len(Before) = 1 /\ Before[1].points # <<>>
  /\ ~Touches(Before[1].boundary, Requested)
  /\ op.approx = Some(<<>>)

\* C10: insert/get round trip. After the insert of a normalized segment s
\* that touches no stored segment of the curve, get(c, s.boundary) returns
\* exactly the one segment s, with nothing of the other stored segments.
C10_InsertGetRoundTrip ==
  (IsInsert /\ is_normalized(op.segment.boundary) /\ Touched = {}) =>
    get(inner, op.curve, op.segment.boundary) = Some(<<op.segment>>)

\* a normalized segment with points has been inserted after a stored segment
\* with points that it does not touch
C10_Witness ==
  /\ IsInsert /\ Had /\ is_normalized(op.segment.boundary) /\ Touched = {}
  /\ op.segment.points # <<>>
  /\ Len(Entry) = 2
  /\ Entry[2] = op.segment

\* C11: get never mutates the cache. Whatever the curve and the boundary (in
\* either direction), the whole cache after get is the cache before it.
C11_GetIsReadOnly ==
  IsGet => inner = op.before

\* a get has returned a clipped, reversed part of a stored segment, and the
\* stored segment is still whole
C11_Witness ==
  /\ IsGet /\ Had
  /\ op.segment.boundary[1] > op.segment.boundary[2]
  /\ op.approx.some /\ Len(op.approx.val) = 1
  /\ Len(Entry) = 1
  /\ Len(op.approx.val[1].points) < Len(Entry[1].points)
  /\ Entry = Before

\* every stored segment of every curve
Stored == UNION {Range(inner[c]) : c \in DOMAIN inner}

C13_Coalesced ==
  \A c \in DOMAIN inner :
    \A i \in 1..Len(inner[c]) : \A j \in 1..Len(inner[c]) :
      i # j => ~Touches(inner[c][i].boundary, inner[c][j].boundary)

\* an insert has bridged two stored segments, and the one segment it left
\* lies beside a third
C13_Witness ==
  /\ IsInsert
  /\ Cardinality(Touched) = 2
  /\ Len(Before) = 3
  /\ Len(Entry) = 2

\* C14: after any sequence of inserts the stored segments of a curve are
\* sorted ascending by boundary.start, after the first insert and after
\* merges that replace several segments by one.
C14_Sorted ==
  \A c \in DOMAIN inner :
    \A i \in 1..Len(inner[c]) : \A j \in 1..Len(inner[c]) :
      i < j => inner[c][i].boundary[1] <= inner[c][j].boundary[1]

\* an insert has merged with a stored segment, and the merged segment is
\* stored before a segment that was stored earlier
C14_Witness ==
  /\ IsInsert
  /\ Touched # {}
  /\ Len(Entry) >= 2
  /\ Entry[1] = op.returned
  /\ Entry[2] \in Range(Before)

C16_EntriesNeverRemoved ==
  /\ inserted \subseteq DOMAIN inner
  /\ DOMAIN op.before \subseteq DOMAIN inner
  /\ (IsGet /\ op.curve \in inserted) => op.approx.some

\* an insert has merged into the entry of a curve while the other curve has
\* an entry too, and both entries are there
C16_Witness ==
  /\ IsInsert /\ Had /\ Touched # {}
  /\ DOMAIN op.before = Curves
  /\ DOMAIN inner = Curves

\* the segment s with its ends swapped and its points in reverse order when
\* its start lies after its end, s itself otherwise
Ascended(s) ==
  IF s.boundary[1] > s.boundary[2]
  THEN [boundary |-> <<s.boundary[2], s.boundary[1]>>,
        points |-> [i \in 1..Len(s.points) |-> s.points[Len(s.points) + 1 - i]]]
  ELSE s

\* C17: first insert for a curve. When the cache has no entry for the curve,
\* insert creates an entry that holds exactly the normalized segment and
\* returns the normalized segment, which is the input when that was
\* normalized already.
C17_FirstInsert ==
  (IsInsert /\ ~Had) =>
    /\ Entry = <<Ascended(op.segment)>>
    /\ op.returned = Ascended(op.segment)
    /\ is_normalized(op.segment.boundary) => op.returned = op.segment

\* the first insert for a curve, of a reversed segment with points, has
\* returned while the other curve has an entry
C17_Witness ==
  /\ IsInsert /\ ~Had
  /\ DOMAIN op.before # {}
  /\ op.segment.boundary[1] > op.segment.boundary[2]
  /\ Len(op.segment.points) >= 2
  /\ op.returned # op.segment
  /\ Entry = <<op.returned>>

\* the last call was an insert of a degenerate boundary
IsDegenerateInsert == IsInsert /\ op.segment.boundary[1] = op.segment.boundary[2]

\* every call returns a value: insert a segment, get None or an approximation
Returns ==
  /\ IsInsert => /\ op.returned.boundary \in Params \X Params
                 /\ op.curve \in DOMAIN inner
  /\ IsGet => IF Had THEN op.approx = Some(op.approx.val)
              ELSE op.approx = None

UnionBoundary ==
  LET bs == {s.boundary : s \in Touched} \cup {Requested}
  IN  <<CHOOSE lo \in {b[1] : b \in bs} : \A b \in bs : lo <= b[1],
        CHOOSE hi \in {b[2] : b \in bs} : \A b \in bs : b[2] <= hi>>

\* the last insert took the touched segments out of the entry, put the
\* returned segment in their place and left the other segments as they were,
\* and the returned segment spans the new and the touched segments
Replaced ==
  /\ Range(Entry) = (Range(Before) \ Touched) \cup {op.returned}
  /\ Len(Entry) = Len(Before) - Cardinality(Touched) + 1
  /\ op.returned \notin Range(Before) \ Touched
  /\ op.returned.boundary = UnionBoundary

Locals(seq) == {seq[i].local : i \in 1..Len(seq)}

\* the point p lies in a range that a touched stored segment covered
WasCovered(p) ==
  \E s \in Touched : s.boundary[1] <= p.local /\ p.local <= s.boundary[2]

\* the points of the new segment of the last insert
NewPoints == Range(normalize(op.segment).points)

\* C20: point precedence on partial overlap. The combined segment contains,
\* inside every range that a stored segment covered, exactly the stored points
\* of that range and none of the new points; the new points outside every
\* covered range are all present; the combined points ascend by parameter.
C20_PointPrecedence ==
  (IsInsert /\ Touched # {}) =>
    LET points == op.returned.points
    IN  /\ \A s \in Touched :
             {p \in Range(points) : s.boundary[1] <= p.local
                                     /\ p.local <= s.boundary[2]}
               = Range(s.points)
        /\ {p \in Range(points) : ~WasCovered(p)}
             = {p \in NewPoints : ~WasCovered(p)}
        /\ \A i, j \in 1..Len(points) :
             i < j => points[i].local < points[j].local

\* a new segment has partly overlapped a stored segment: a new point in the
\* covered range gave way to the stored data, a new point outside was kept
C20_Witness ==
  /\ IsInsert
  /\ \E s \in Touched :
       /\ ~Covers(s.boundary, Requested)
       /\ ~Covers(Requested, s.boundary)
       /\ s.points # <<>>
       /\ Range(s.points) \subseteq Range(op.returned.points)
  /\ \E p \in NewPoints : WasCovered(p) /\ p \notin Range(op.returned.points)
  /\ \E p \in NewPoints : ~WasCovered(p) /\ p \in Range(op.returned.points)

\* the points of the segments in seq
PointsOf(seq) == UNION {Range(seq[i].points) : i \in 1..Len(seq)}

\* the point p lies in the closed range of a segment of seq
CoveredBy(p, seq) ==
  \E i \in 1..Len(seq) :
    seq[i].boundary[1] <= p.local /\ p.local <= seq[i].boundary[2]

\* what get returned, or would return, for the curve and the boundary of the
\* last insert, before the call and after it
GotBefore == get(op.before, op.curve, Requested)
GotAfter == get(inner, op.curve, Requested)

\* C21: published vertices are stable. A point stored for a curve stays
\* stored with its position, no insert adds a point inside a range that was
\* covered, and a result taken after an insert agrees with the result for the
\* same boundary taken before it on the points of the range covered then.
C21_PublishedStable ==
  (IsInsert /\ Had) =>
    /\ PointsOf(Before) \subseteq PointsOf(Entry)
    /\ \A p \in PointsOf(Entry) : CoveredBy(p, Before) => p \in PointsOf(Before)
    /\ \A p, q \in PointsOf(Entry) : p.local = q.local => p = q
    /\ PointsOf(GotBefore.val) \subseteq PointsOf(GotAfter.val)
    /\ \A p \in PointsOf(GotAfter.val) :
         CoveredBy(p, GotBefore.val) => p \in PointsOf(GotBefore.val)
    /\ \A p \in Range(op.returned.points) :
         CoveredBy(p, Before) => p \in PointsOf(Before)

\* an insert whose points were computed anew (h) has overlapped a stored
\* segment with points (g): the stored points are still there, the new point
\* inside the covered range is not, a new point outside it is
C21_Witness ==
  /\ IsInsert /\ Had
  /\ \E p \in PointsOf(Before) : p.global = "g" /\ p \in PointsOf(GotAfter.val)
  /\ \E p \in NewPoints :
       p.global = "h" /\ CoveredBy(p, Before) /\ p \notin PointsOf(Entry)
  /\ \E p \in NewPoints :
       p.global = "h" /\ ~CoveredBy(p, Before) /\ p \in PointsOf(Entry)
  /\ PointsOf(GotBefore.val) # {}
  /\ PointsOf(GotBefore.val) # PointsOf(GotAfter.val)

\* the clipped segment r lies within the request and within the stored
\* segment s, and has points of s only
ClippedFrom(r, s) ==
  LET rb == BoundaryNormalize(r.boundary)
  IN  /\ Covers(Requested, rb)
      /\ Covers(s.boundary, rb)
      /\ Range(r.points) \subseteq Range(s.points)

\* the request of the last get spans two stored segments and the gap
\* between them
SpansGap ==
  \E s, t \in Range(Before) :
    /\ s.boundary[1] < s.boundary[2] /\ t.boundary[1] < t.boundary[2]
    /\ s.boundary[2] < t.boundary[1]
    /\ Requested[1] <= s.boundary[1] /\ t.boundary[2] <= Requested[2]

\* C22: no extrapolation across gaps. For a request that spans stored segments
\* separated by a gap, get returns the clipped segments separately, one for
\* each stored segment that has a stretch in common with the request; each
\* returned boundary lies within the request and within its stored segment,
\* so none covers a part of the gap; every returned point is a stored point.
C22_NoExtrapolation ==
  (IsGet /\ Had) =>
    LET val == op.approx.val
        hit == {s \in Range(Before) : Overlap(s.boundary, Requested)}
    IN  /\ Len(val) = Cardinality(hit)
        /\ \A s \in hit : \E i \in 1..Len(val) : ClippedFrom(val[i], s)
        /\ \A i \in 1..Len(val) : \E s \in hit : ClippedFrom(val[i], s)
        /\ \A i, j \in 1..Len(val) :
             i # j => ~Touches(BoundaryNormalize(val[i].boundary),
                               BoundaryNormalize(val[j].boundary))
        /\ SpansGap => Len(val) >= 2

\* a get over two stored segments and the gap between them has returned the
\* two segments, the one that has points with its points
C22_Witness ==
  /\ IsGet /\ Had /\ SpansGap
  /\ Len(op.approx.val) = 2
  /\ \E i \in 1..2 : op.approx.val[i].points # <<>>
  /\ op.approx.val[1].boundary[2] < op.approx.val[2].boundary[1]

\* the curves other than the curve of the last call
Others == Curves \ {op.curve}

\* C23: per-curve independence. insert changes only the entry of its curve:
\* every other curve has the entry it had, or none as before, and get for it
\* returns what it returned before, for every boundary, also when the same
\* segment is inserted for both curves.
C23_PerCurve ==
  IsInsert =>
    \A c \in Others :
      /\ c \in DOMAIN inner <=> c \in DOMAIN op.before
      /\ c \in DOMAIN inner => inner[c] = op.before[c]
      /\ \A b \in Boundaries(c) : get(inner, c, b) = get(op.before, c, b)

\* a segment that the other curve has stored has been inserted for a curve
\* and has been merged into its entry; the two entries differ
C23_Witness ==
  /\ IsInsert /\ Had
  /\ Entry # Before
  /\ Touched # {}
  /\ \E c \in Others :
       /\ c \in DOMAIN inner
       /\ normalize(op.segment) \in Range(inner[c])
       /\ inner[c] # Entry

\* the segments of an entry are sorted by start and no two of them touch
Complete(segments) ==
  \A i, j \in 1..Len(segments) :
    i < j => segments[i].boundary[2] < segments[j].boundary[1]

\* C24: under the access discipline no get observes an intermediate state of
\* insert. The cache a get reads has an entry for every curve insert was
\* called for, so get returns Some for a known curve, and every entry it
\* reads is a fully merged list; a finished insert has done what insert does
\* in one step.
C24_NoIntermediate ==
  /\ IsGet =>
       /\ op.before = inner
       /\ inserted \subseteq DOMAIN op.before
       /\ op.curve \in inserted => op.approx.some
       /\ \A c \in DOMAIN op.before : Complete(op.before[c])
       /\ op.approx = get(inner, op.curve, op.segment.boundary)
  /\ IsInsert =>
       insert(op.before, op.curve, op.segment)
         = [inner |-> inner, segment |-> op.returned]
  /\ op.kind \in {"removed", "merged"} => op.curve \notin DOMAIN inner

\* a get for a curve whose entry went through several inserts, each of which
\* took it out of the map and put it back, has returned segments
C24_Witness ==
  /\ IsGet /\ Had
  /\ Len(Before) >= 2
  /\ PointsOf(Before) # {}
  /\ Len(op.approx.val) >= 2

\* the segment the last insert returned is stored in the entry of the curve
\* and its boundary contains the normalized boundary of the new segment
ReturnedIsStored ==
  /\ op.returned \in Range(Entry)
  /\ Covers(op.returned.boundary, Requested)

Settled == [inner |-> inner, segment |-> op.returned]

\* C26: insert is idempotent. Inserting the same segment for the same curve
\* right after an insert, or inserting the segment that the insert returned,
\* returns the segment the first call returned and leaves the cache as it is.
C26_InsertIdempotent ==
  IsInsert =>
    /\ insert(inner, op.curve, op.segment) = Settled
    /\ insert(inner, op.curve, op.returned) = Settled

\* a reversed segment with points has been merged with a stored segment into
\* a wider segment, neither the new nor a stored one
C26_Witness ==
  /\ IsInsert /\ Had
  /\ op.segment.boundary[1] > op.segment.boundary[2]
  /\ op.segment.points # <<>>
  /\ op.returned.boundary # Requested
  /\ op.returned \notin Range(Before)
  /\ inner # op.before
  /\ insert(inner, op.curve, op.segment).inner = inner

StrictlyInterior(s) ==
  \A i \in 1..Len(s.points) :
    /\ Min(s.boundary[1], s.boundary[2]) < s.points[i].local
    /\ s.points[i].local < Max(s.boundary[1], s.boundary[2])

\* the points of s strictly ascend by parameter
StrictlyAscending(s) ==
  \A i, j \in 1..Len(s.points) :
    i < j => s.points[i].local < s.points[j].local

\* the points of s strictly descend by parameter
StrictlyDescending(s) ==
  \A i, j \in 1..Len(s.points) :
    i < j => s.points[i].local > s.points[j].local

\* C28: point invariant of stored segments. With inserted segments whose
\* points are strictly interior and strictly ordered, every stored segment
\* has points strictly interior to its boundary and strictly ascending by
\* parameter, and every segment returned by get has points strictly interior
\* to its clipped boundary, ascending, or descending for a reversed request.
C28_PointInvariant ==
  /\ \A s \in Stored : StrictlyInterior(s) /\ StrictlyAscending(s)
  /\ IsInsert => StrictlyInterior(op.returned) /\ StrictlyAscending(op.returned)
  /\ (IsGet /\ Had) =>
       \A r \in Range(op.approx.val) :
         /\ StrictlyInterior(r)
         /\ IF op.segment.boundary[1] > op.segment.boundary[2]
            THEN StrictlyDescending(r) ELSE StrictlyAscending(r)

\* a reversed get has clipped a stored segment and returned some of its
\* points, fewer than are stored, descending
C28_Witness ==
  /\ IsGet /\ Had
  /\ op.segment.boundary[1] > op.segment.boundary[2]
  /\ \E r \in Range(op.approx.val) :
       /\ Len(r.points) >= 2
       /\ r.points[1].local > r.points[2].local
       /\ \E s \in Range(Before) : Len(s.points) > Len(r.points)

\* the objects of the commands the validation layer was given, in order
ValidatedObjects == [i \in 1..Len(validated) |-> validated[i].object]

\* where Layer<Objects>::insert stands: no event before decide; after decide
\* the one event, which is the command, with the state as it was; after
\* evolve the object in the state and nothing passed on yet; after the call
\* every event passed on once, in order
C29_Stages ==
  /\ pc = "decide" => events = <<>> /\ objects = ValidatedObjects
  /\ pc = "evolve" => events = <<command>> /\ objects = ValidatedObjects
  /\ pc = "validate" =>
       /\ events = <<command>>
       /\ objects = Append(ValidatedObjects, command.object)
  /\ pc = "idle" => events = <<>> /\ objects = ValidatedObjects

\* decide leaves the state of the objects layer alone, and the validation
\* layer is given an event only when the objects layer has processed the
\* command
C29_Steps ==
  /\ pc = "decide" => objects' = objects /\ validated' = validated
  /\ validated' # validated =>
       /\ pc = "validate" /\ objects' = objects
       /\ validated' = Append(validated, InsertObject(Head(events).object))

\* C29: Layer<Objects>::insert ordering. An insert command yields exactly one
\* InsertObject event carrying the same object; evolve applies the object to
\* the Objects state; every event is then passed to the validation layer
\* exactly once, in production order, and only after the objects layer has
\* processed the command; decide does not modify the Objects state.
C29_InsertOrdering == [](C29_Stages) /\ [][C29_Steps]_vars

\* three objects, the first of them twice, have been inserted and passed on
C29_Witness ==
  /\ pc = "idle"
  /\ Len(objects) >= 3
  /\ objects[1] = objects[3] /\ objects[1] # objects[2]
  /\ validated = [i \in 1..Len(objects) |-> InsertObject(objects[i])]

\* after decide there is one ValidationFailed event for each error found
\* for the object, in the order the errors were found, each with the object
C30_Events ==
  pc = "evolve" =>
    /\ Len(events) = Len(command.errs)
    /\ \A i \in 1..Len(events) :
         events[i] = [object |-> command.object, err |-> command.errs[i]]
    /\ command.errs = <<>> => events = <<>>

\* C30: Validation decide. For a ValidateObject command decide emits exactly
\* one ValidationFailed event per validation error found for the object, in
\* the order the errors were found, each carrying the object; it emits no
\* event when the object is valid; it does not change the validation state.
C30_ValidationDecide ==
  [](C30_Events) /\ [][pc = "decide" => errors' = errors]_vars

\* decide has found two different errors for an object and has emitted the
\* two events, while the state holds errors recorded for an earlier command
C30_Witness ==
  /\ pc = "evolve"
  /\ Len(events) = 2
  /\ events[1].err # events[2].err
  /\ events[1].object = command.object /\ events[2].object = command.object
  /\ DOMAIN errors # {}
  /\ id(command.object) \notin DOMAIN errors

\* the map `after` is the map `self` with err under the id of object, and
\* with every other entry as it was
Recorded(self, after, object, err) ==
  /\ id(object) \in DOMAIN after
  /\ after[id(object)] = err
  /\ DOMAIN after \ {id(object)} = DOMAIN self \ {id(object)}
  /\ \A i \in DOMAIN after \ {id(object)} : after[i] = self[i]

\* each event of the command, applied to the state that the events before it
\* have made, records its error under the id of its object
C31_EachEvent ==
  pc = "evolve" =>
    \A n \in 1..Len(events) :
      LET self == ValidationEvolveAll(errors, SubSeq(events, 1, n - 1))
      IN  Recorded(self, validation_evolve(self, events[n]),
                   events[n].object, events[n].err)

\* the command has been processed: the object has an error recorded iff
\* errors were found for it or one was recorded before; it is the last error
\* found, if any was; the other objects are as they were
C31_Processed ==
  pc = "evolve" =>
    LET i == id(command.object)
    IN  /\ i \in DOMAIN errors' <=> (command.errs # <<>> \/ i \in DOMAIN errors)
        /\ command.errs # <<>> => errors'[i] = command.errs[Len(command.errs)]
        /\ command.errs = <<>> => errors' = errors
        /\ \A j \in (DOMAIN errors \cup DOMAIN errors') \ {i} :
             j \in DOMAIN errors /\ j \in DOMAIN errors' /\ errors'[j] = errors[j]

\* C31: Validation evolve. After a ValidationFailed event is applied the
\* errors map holds the error under the id of the object and the entries of
\* all other ids are unchanged; after a ValidateObject command is processed
\* the state has an error for the object iff validation found an error or
\* one was recorded before.
C31_ValidationEvolve == [](C31_EachEvent) /\ [][C31_Processed]_vars

\* errors have been recorded for two objects, a different one for each
C31_Witness ==
  /\ pc = "idle"
  /\ \E i, j \in DOMAIN errors : i # j /\ errors[i] # errors[j]
  /\ \E object \in AnyObject : id(object) \notin DOMAIN errors

\* the presentation layer has decided a derive_object command
DerivedDecided == pc = "evolve" /\ command.type = "DeriveObject"

\* the presentation layer has decided a set_color command
SetColorDecided == pc = "evolve" /\ command.type = "SetColor"

\* the derived object inherits a colour: both objects of the command are
\* regions and the original has a colour stored
Inherits ==
  /\ command.original.variant = "Region"
  /\ command.derived.variant = "Region"
  /\ command.original.handle \in DOMAIN color

\* after decide: the one SetColor event for the derived region, with the
\* colour stored for the original, iff the colour is inherited
C32_Events ==
  DerivedDecided =>
    events = IF Inherits
             THEN <<[type |-> "SetColor", region |-> command.derived.handle,
                     color |-> color[command.original.handle]]>>
             ELSE <<>>

\* decide leaves the state alone; a command without an event leaves it alone
\* altogether; after the command a derived region has the colour of its
\* original, and the other regions have the colours they had
C32_Steps ==
  /\ pc = "decide" => color' = color
  /\ DerivedDecided =>
       IF Inherits
       THEN /\ command.derived.handle \in DOMAIN color'
            /\ color'[command.derived.handle] = color[command.original.handle]
            /\ color'[command.derived.handle] = color'[command.original.handle]
            /\ \A r \in Regions \ {command.derived.handle} :
                 /\ r \in DOMAIN color' <=> r \in DOMAIN color
                 /\ r \in DOMAIN color => color'[r] = color[r]
       ELSE color' = color

\* C32: colour inheritance on derive. derive_object emits a SetColor event
\* for derived, with the colour stored for original, iff both objects are
\* regions and original has a stored colour; otherwise no event is emitted
\* and the presentation state is unchanged. After it a derived region has
\* the colour of its original whenever the original had one.
C32_DeriveInherits == [](C32_Events) /\ [][C32_Steps]_vars

\* a region with another colour is being derived from a region with a
\* colour: the event carries the colour of the original
C32_Witness ==
  /\ DerivedDecided /\ Inherits
  /\ command.derived.handle # command.original.handle
  /\ command.derived.handle \in DOMAIN color
  /\ color[command.derived.handle] # color[command.original.handle]
  /\ Len(events) = 1

\* C33: set_color emits exactly one SetColor event; after it the
\* presentation state maps the region to the colour, replacing an earlier
\* colour of the region, and the colours of all other regions are unchanged.
C33_SetColor ==
  /\ [](SetColorDecided => events = <<command>>)
  /\ [][SetColorDecided =>
          /\ command.region \in DOMAIN color'
          /\ color'[command.region] = command.color
          /\ \A r \in Regions \ {command.region} :
               /\ r \in DOMAIN color' <=> r \in DOMAIN color
               /\ r \in DOMAIN color => color'[r] = color[r]]_vars

\* a colour is being set for a region that has the other colour, while the
\* other region has a colour too
C33_Witness ==
  /\ SetColorDecided
  /\ events = <<command>>
  /\ DOMAIN color = Regions
  /\ color[command.region] # command.color

\* the step is a call of handle_mouse_input for the button
MouseStep(button) ==
  \E state \in ElementState : \E focus_point \in FocusPoints :
    HandleMouseInput(button, state, focus_point)

\* what was reported last for the buttons is what is started
C34_Started ==
  /\ rotation.started <=> buttons.Left = "Pressed"
  /\ movement.started <=> buttons.Right = "Pressed"

\* whatever the handler holds, an event of a button touches only what the
\* button stands for
C34_Frames ==
  \A state \in ElementState : \A focus_point \in FocusPoints :
    /\ handle_mouse_input(Handler, "Left", state, focus_point).movement
         = movement
    /\ handle_mouse_input(Handler, "Right", state, focus_point).rotation
         = rotation
    /\ handle_mouse_input(Handler, "Middle", state, focus_point) = Handler

C34_Steps ==
  /\ MouseStep("Left") => movement' = movement
  /\ MouseStep("Right") => rotation' = rotation
  /\ MouseStep("Middle") => movement' = movement /\ rotation' = rotation

C35_Steps ==
  \A cur \in Positions :
    HandleCursorMoved(cur) =>
      /\ cursor' = Some(cur)
      /\ cursor = None => camera' = camera
      /\ camera'.translation # camera.translation =>
           cursor # None /\ movement.started

\* the same of every call the handler could be given in the state
C35_Calls ==
  \A cur \in Positions :
    LET after == handle_cursor_moved(Handler, cur, camera) IN
    /\ after.self.cursor = Some(cur)
    /\ cursor = None => after.camera = camera
    /\ after.camera.translation # camera.translation =>
         cursor # None /\ movement.started

Ignored(input) ==
  \/ input.state = "Released"
  \/ input.virtual_keycode = None
  \/ input.virtual_keycode \notin {Some("Escape"), Some("Key1"), Some("Key2")}

\* what a key does to the flags that are set now
C36_Calls ==
  \A input \in KeyboardInput :
    LET after == handle_keyboard_input(input, actions)
        pressed(k) == input = [state |-> "Pressed", virtual_keycode |-> Some(k)]
    IN  /\ after.exit <=> actions.exit \/ pressed("Escape")
        /\ after.toggle_model <=> actions.toggle_model \/ pressed("Key1")
        /\ after.toggle_mesh <=> actions.toggle_mesh \/ pressed("Key2")
        /\ Ignored(input) => after = actions

\* a flag changes only by the pressed key it belongs to, and never to false
C36_Steps ==
  /\ actions'.exit # actions.exit =>
       /\ actions'.exit
       /\ HandleKeyboardInput([state |-> "Pressed",
                               virtual_keycode |-> Some("Escape")])
  /\ actions'.toggle_model # actions.toggle_model =>
       /\ actions'.toggle_model
       /\ HandleKeyboardInput([state |-> "Pressed",
                               virtual_keycode |-> Some("Key1")])
  /\ actions'.toggle_mesh # actions.toggle_mesh =>
       /\ actions'.toggle_mesh
       /\ HandleKeyboardInput([state |-> "Pressed",
                               virtual_keycode |-> Some("Key2")])

\* C36: keyboard actions. handle_keyboard_input sets actions.exit only for a
\* pressed Escape, actions.toggle_model only for a pressed Key1 and
\* actions.toggle_mesh only for a pressed Key2; released keys, other keys and
\* events without a key code change nothing; no flag is ever reset to false,
\* so each flag is monotone over any sequence of keyboard events.
C36_KeyboardActions == [](C36_Calls) /\ [][C36_Steps]_vars

\* Key1 and Key2 have been pressed, Escape has not
C36_Witness ==
  /\ actions.toggle_model
  /\ actions.toggle_mesh
  /\ ~actions.exit

\* the handles the call made: the vertex above the swept one and the edge
Made(call) == {call.swept.vertices[2], call.swept.global_edge}

\* the handles a cache holds
Cached(cache) ==
  {cache.global_vertex[k] : k \in DOMAIN cache.global_vertex}
    \cup {cache.global_edge[k] : k \in DOMAIN cache.global_edge}

\* what a call of sweep made is made by no other call and is in no cache of
\* a caller
C37_Isolated ==
  \A i \in 1..Len(swept) :
    swept[i].call = "sweep" =>
      /\ \A j \in 1..Len(swept) \ {i} : Made(swept[i]) \cap Made(swept[j]) = {}
      /\ Made(swept[i]) \cap Cached(held) = {}

\* a call of sweep returns what sweep_with_cache returns for an empty cache,
\* stores what it stores, and leaves the cache of a caller alone
C37_Steps ==
  \A object \in Vertices : \A path \in Paths :
    SweepCall(object, path) =>
      LET empty == sweep_with_cache(object, path, EmptySweepCache, services)
      IN  /\ swept'[Len(swept')].swept = empty.swept
          /\ services' = empty.services
          /\ held' = held

Called(helper) == result # None /\ result.val.helper = helper

\* C38: ValidationCheck helpers. check_and_return_first_error returns Ok(())
\* iff the check yields no error and otherwise Err of the first error
\* yielded; check_and_expect_one_error returns the error iff the check yields
\* exactly one error, and panics when it yields none or more than one.
C38_Helpers ==
  /\ Called("check_and_return_first_error") =>
       /\ result.val.outcome = Ok <=> check = <<>>
       /\ check # <<>> => result.val.outcome = Err(check[1])
  /\ Called("check_and_expect_one_error") =>
       /\ ~result.val.outcome.panic <=> Len(check) = 1
       /\ Len(check) = 1 => result.val.outcome = Returned(check[1])
       /\ Len(check) # 1 => result.val.outcome.panic

\* the check yielded two errors and check_and_expect_one_error panicked
C38_Witness ==
  /\ Called("check_and_expect_one_error")
  /\ Len(check) = 2
  /\ check[1] # check[2]
  /\ result.val.outcome.panic

====
